---- MODULE Spec2Model ----
(***************************************************************************)
(* RotatableSet (the variant with addToFurthest / addToNext and an         *)
(* insertion head): a circular doubly-linked ring of RingNode objects, a   *)
(* Map from item to node, a cursor `current`, an insertion anchor          *)
(* `insertionHead` and a counter `_size` (here `size`).                    *)
(*                                                                         *)
(* Nodes live in `heap`, a function from node identities to their fields.  *)
(* A node that no field, Map entry or link refers to any more is dropped   *)
(* from the heap, as the runtime's collector does.                         *)
(***************************************************************************)
EXTENDS Integers, Sequences, FiniteSets, TLC

\* ---- bounds ----
MaxVal == 3       \* items are 1..MaxVal
MaxInit == 3      \* longest sequence handed to the constructor
MaxIndex == 4     \* getFurthestItem is called with -MaxIndex..MaxIndex
MaxGen == 1       \* extra node identities per item beyond the first
MaxElem == 2      \* the elements of a backing array are 1..MaxElem
MaxLen == 3       \* longest backing array

Null == 0
Vals == 1..MaxVal
NodeIds == 1..(MaxVal * (MaxGen + 1))
\* numbers handed to getFurthestItem: finite integers, NaN and the infinities
Finite(k) == [cls |-> "finite", num |-> k]
NonFinite == {[cls |-> c, num |-> 0] : c \in {"NaN", "Infinity", "-Infinity"}}
Indexes == {Finite(k) : k \in (0 - MaxIndex)..MaxIndex} \cup NonFinite
\* k + 1/2, a finite number that is not an integer
Half(k) == [cls |-> "half", num |-> k]
isFinite(x) == x.cls \in {"finite", "half"}
isInteger(x) == x.cls = "finite"
\* Math.trunc
trunc(x) == IF x.cls = "finite" \/ x.num >= 0 THEN x.num ELSE x.num + 1

VARIABLES current, insertionHead, nodes, size, heap, op, ret, pre, live, order,
          gen, array, index_, round

vars == <<current, insertionHead, nodes, size, heap, op, ret, pre, live, order,
          gen, array, index_, round>>

\* ---- sequences of items ----
SeqsUpTo(n) == UNION {[1..k -> Vals] : k \in 0..n}

Last(s) == s[Len(s)]

RemoveVal(s, v) == SelectSeq(s, LAMBDA e : e # v)

SeqToSet(s) == {s[i] : i \in 1..Len(s)}

\* ---- the Map<T, RingNode<T>> (insertion ordered) ----
MapHas(m, k) == \E i \in 1..Len(m) : m[i].key = k

MapGet(m, k) == IF MapHas(m, k) THEN m[CHOOSE i \in 1..Len(m) : m[i].key = k].node ELSE Null

MapSet(m, k, n) ==
    IF MapHas(m, k)
    THEN [i \in 1..Len(m) |-> IF m[i].key = k THEN [key |-> k, node |-> n] ELSE m[i]]
    ELSE Append(m, [key |-> k, node |-> n])

MapDelete_keepsKey(m, k) == m

MapDelete(m, k) == SelectSeq(m, LAMBDA e : e.key # k)

MapKeys(m) == [i \in 1..Len(m) |-> m[i].key]

MapNodes(m) == {m[i].node : i \in 1..Len(m)}

\* ---- RingNode ----
HasFreshId(h, item) == \E g \in 0..MaxGen : (item + MaxVal * g) \notin DOMAIN h

FreshId(h, item) ==
    LET g == CHOOSE x \in 0..MaxGen :
                 /\ (item + MaxVal * x) \notin DOMAIN h
                 /\ \A y \in 0..MaxGen : (item + MaxVal * y) \notin DOMAIN h => x <= y
    IN item + MaxVal * g

\* new RingNode(item): next and prev point to the node itself
NewRingNode(h, id, item) ==
    [n \in DOMAIN h \cup {id} |->
        IF n = id THEN [value |-> item, next |-> id, prev |-> id] ELSE h[n]]

\* ---- the object as a record ----
EmptySet == [current |-> Null, insertionHead |-> Null, nodes |-> <<>>, size |-> 0,
             heap |-> [n \in {} |-> [value |-> 0, next |-> 0, prev |-> 0]]]

Self == [current |-> current, insertionHead |-> insertionHead, nodes |-> nodes,
         size |-> size, heap |-> heap]

\* nodes still referred to by the object's fields, the Map or a link of such a node
Links(h, S) == S \cup {h[n].next : n \in S} \cup {h[n].prev : n \in S}

RECURSIVE Closure(_, _)
Closure(h, S) == IF \A n \in S : h[n].next \in S /\ h[n].prev \in S THEN S ELSE Closure(h, Links(h, S))

Roots(s) == ({s.current, s.insertionHead} \cup MapNodes(s.nodes)) \ {Null}

Collect(s) ==
    LET R == Closure(s.heap, Roots(s))
    IN IF R = DOMAIN s.heap THEN s ELSE [s EXCEPT !.heap = [n \in R |-> s.heap[n]]]

\* ---- results ----
RetThis == [kind |-> "this"]
RetVoid == [kind |-> "void"]
RetValue(v) == [kind |-> "value", val |-> v]
RetBool(b) == [kind |-> "bool", val |-> b]
RetArray(a) == [kind |-> "array", val |-> a]
RetError(e) == [kind |-> "error", err |-> e]

Result(s, r) == [st |-> s, ret |-> r]

\* ---- private helpers ----
requireCurrent_singleton(s) == IF s.size <= 1 THEN Null ELSE s.current

requireCurrent(s) == s.current

requireInsertionHead_cursor(s) == s.current

requireInsertionHead_afterAnchor(s) ==
    IF s.insertionHead = Null THEN Null ELSE s.heap[s.insertionHead].next

requireInsertionHead_beforePrev(s) ==
    IF s.insertionHead = Null THEN Null ELSE s.heap[s.insertionHead].prev

requireInsertionHead(s) == s.insertionHead

insertBefore_noPrevNext(h, target, node) ==
    LET prev == h[target].prev
        h1 == [h EXCEPT ![node].next = target]
        h2 == [h1 EXCEPT ![node].prev = prev]
    IN [h2 EXCEPT ![target].prev = node]

insertBefore_noTargetPrev(h, target, node) ==
    LET prev == h[target].prev
        h1 == [h EXCEPT ![node].next = target]
        h2 == [h1 EXCEPT ![node].prev = prev]
    IN [h2 EXCEPT ![prev].next = node]

insertBefore(h, target, node) ==
    LET prev == h[target].prev
        h1 == [h EXCEPT ![node].next = target]
        h2 == [h1 EXCEPT ![node].prev = prev]
        h3 == [h2 EXCEPT ![prev].next = node]
    IN [h3 EXCEPT ![target].prev = node]

\* ---- operations ----
\* next(): this.current = node.next
advance_prev(s, node) == s.heap[node].prev

advance_skipsOne(s, node) == s.heap[s.heap[node].next].next

advance(s, node) == s.heap[node].next

next(s) ==
    IF requireCurrent(s) = Null THEN Result(s, RetError("empty"))
    ELSE LET node == requireCurrent(s)
         IN Result([s EXCEPT !.current = advance(s, node)], RetValue(s.heap[node].value))

peek_advances(s) == next(s)

peek(s) ==
    IF requireCurrent(s) = Null THEN Result(s, RetError("empty"))
    ELSE Result(s, RetValue(s.heap[requireCurrent(s)].value))

addToFurthest(s, item) ==
    IF MapHas(s.nodes, item) THEN Result(s, RetThis)
    ELSE LET node == FreshId(s.heap, item)
             h0 == NewRingNode(s.heap, node, item)
         IN IF s.current = Null
            THEN Result([s EXCEPT !.current = node, !.insertionHead = node, !.heap = h0,
                                  !.nodes = MapSet(@, item, node), !.size = @ + 1], RetThis)
            ELSE IF requireInsertionHead(s) = Null
            THEN Result(s, RetError("empty"))
            ELSE Result([s EXCEPT !.heap = insertBefore(h0, requireInsertionHead(s), node),
                                  !.nodes = MapSet(@, item, node), !.size = @ + 1], RetThis)

\* addToNext on a non-empty set: the cursor and the anchor after the insertion
addToNextCursor_stays(s, node) == s.current

addToNextCursor(s, node) == node

addToNextAnchor_follows(s, node) ==
    IF s.insertionHead = s.current THEN node ELSE s.insertionHead

addToNextAnchor_toNew(s, node) == node

addToNextAnchor(s, node) == s.insertionHead

addToNext_dupMovesCursor(s, item) ==
    IF MapHas(s.nodes, item) THEN Result([s EXCEPT !.current = MapGet(s.nodes, item)], RetThis)
    ELSE LET node == FreshId(s.heap, item)
             h0 == NewRingNode(s.heap, node, item)
         IN IF s.current = Null
            THEN Result([s EXCEPT !.current = node, !.insertionHead = node, !.heap = h0,
                                  !.nodes = MapSet(@, item, node), !.size = @ + 1], RetThis)
            ELSE Result([s EXCEPT !.heap = insertBefore(h0, s.current, node),
                                  !.current = addToNextCursor(s, node),
                                  !.insertionHead = addToNextAnchor(s, node),
                                  !.nodes = MapSet(@, item, node), !.size = @ + 1], RetThis)

addToNext(s, item) ==
    IF MapHas(s.nodes, item) THEN Result(s, RetThis)
    ELSE LET node == FreshId(s.heap, item)
             h0 == NewRingNode(s.heap, node, item)
         IN IF s.current = Null
            THEN Result([s EXCEPT !.current = node, !.insertionHead = node, !.heap = h0,
                                  !.nodes = MapSet(@, item, node), !.size = @ + 1], RetThis)
            ELSE Result([s EXCEPT !.heap = insertBefore(h0, s.current, node),
                                  !.current = addToNextCursor(s, node),
                                  !.insertionHead = addToNextAnchor(s, node),
                                  !.nodes = MapSet(@, item, node), !.size = @ + 1], RetThis)

add(s, item) == addToFurthest(s, item)

\* delete of the only item: current, insertionHead and _size are reset
deleteLast_keepsAnchor(s, m) == [s EXCEPT !.nodes = m, !.current = Null, !.size = 0]

deleteLast(s, m) ==
    [s EXCEPT !.nodes = m, !.current = Null, !.insertionHead = Null, !.size = 0]

\* delete: if (!node) return false
deleteAbsent_throws(s) == Result(s, RetError("missing"))

deleteAbsent(s) == Result(s, RetBool(FALSE))

\* delete: if (node === this.current) this.current = next
deleteCursor_prev(s, node, nxt) == IF node = s.current THEN s.heap[node].prev ELSE s.current

deleteCursor_skips(s, node, nxt) ==
    IF node # s.current THEN s.current
    ELSE IF s.heap[nxt].next = node THEN nxt ELSE s.heap[nxt].next

deleteCursor(s, node, nxt) == IF node = s.current THEN nxt ELSE s.current

\* delete: if (node === this.insertionHead) this.insertionHead = next
deleteAnchor_stale(s, node, nxt) == s.insertionHead

deleteAnchor_prev(s, node, nxt) ==
    IF node = s.insertionHead THEN s.heap[node].prev ELSE s.insertionHead

deleteAnchor_toCursor(s, node, nxt) ==
    IF node = s.insertionHead
    THEN (IF node = s.current THEN nxt ELSE s.current)
    ELSE s.insertionHead

deleteAnchor(s, node, nxt) == IF node = s.insertionHead THEN nxt ELSE s.insertionHead

delete(s, item) ==
    LET node == MapGet(s.nodes, item)
    IN IF node = Null THEN deleteAbsent(s)
       ELSE LET m == MapDelete(s.nodes, item)
            IN IF s.size = 1
               THEN Result(deleteLast(s, m), RetBool(TRUE))
               ELSE LET nxt == s.heap[node].next
                        h1 == [s.heap EXCEPT ![s.heap[node].prev].next = s.heap[node].next]
                        h2 == [h1 EXCEPT ![h1[node].next].prev = h1[node].prev]
                    IN Result([s EXCEPT !.nodes = m, !.heap = h2,
                                        !.current = deleteCursor(s, node, nxt),
                                        !.insertionHead = deleteAnchor(s, node, nxt),
                                        !.size = @ - 1], RetBool(TRUE))

\* the remainder operator of the language: the sign follows the dividend
Rem_abs(a, b) == (IF a >= 0 THEN a ELSE 0 - a) % b

Rem(a, b) == IF a >= 0 THEN a % b ELSE 0 - ((0 - a) % b)

RECURSIVE WalkPrev(_, _, _)
WalkPrev(h, n, k) == IF k <= 0 THEN n ELSE WalkPrev(h, h[n].prev, k - 1)

RECURSIVE WalkNext(_, _, _)
WalkNext(h, n, k) == IF k <= 0 THEN n ELSE WalkNext(h, h[n].next, k - 1)

getFurthestItem_fromCursor(s, index) ==
    IF s.current = Null THEN Result(s, RetError("empty"))
    ELSE IF ~isFinite(index) THEN Result(s, RetError("finite"))
    ELSE LET offset == IF s.size = 0 THEN 0
                       ELSE Rem(Rem(index.num, s.size) + s.size, s.size)
             target == WalkPrev(s.heap, s.current, offset)
         IN Result(s, RetValue(s.heap[target].value))

getFurthestItem_finiteFirst(s, index) ==
    IF ~isFinite(index) THEN Result(s, RetError("finite"))
    ELSE IF s.current = Null THEN Result(s, RetError("empty"))
    ELSE LET offset == IF s.size = 0 THEN 0
                       ELSE Rem(Rem(index.num, s.size) + s.size, s.size)
             target == WalkPrev(s.heap, s.heap[s.current].prev, offset)
         IN Result(s, RetValue(s.heap[target].value))

getFurthestItem(s, index) ==
    IF requireCurrent(s) = Null THEN Result(s, RetError("empty"))
    ELSE IF ~isFinite(index) THEN Result(s, RetError("finite"))
    ELSE LET node == requireCurrent(s)
             offset == IF s.size = 0 THEN 0
                       ELSE Rem(Rem(index.num, s.size) + s.size, s.size)
             target == WalkPrev(s.heap, s.heap[node].prev, offset)
         IN Result(s, RetValue(s.heap[target].value))

has(s, item) == Result(s, RetBool(MapHas(s.nodes, item)))

clear_keepsIndex(s) ==
    Result([s EXCEPT !.current = Null, !.insertionHead = Null, !.size = 0], RetVoid)

clear(s) ==
    Result([s EXCEPT !.current = Null, !.insertionHead = Null, !.nodes = <<>>, !.size = 0],
           RetVoid)

toArrayOf_backward(s) ==
    IF s.current = Null THEN <<>>
    ELSE [i \in 1..s.size |-> s.heap[WalkPrev(s.heap, s.current, i - 1)].value]

toArrayOf(s) ==
    IF s.current = Null THEN <<>>
    ELSE [i \in 1..s.size |-> s.heap[WalkNext(s.heap, s.current, i - 1)].value]

toArray(s) == Result(s, RetArray(toArrayOf(s)))

toSet_ringOrder(s) == Result(s, RetArray(toArrayOf(s)))

toSet(s) == Result(s, RetArray(MapKeys(s.nodes)))

RECURSIVE constructor_addToNext(_, _)
constructor_addToNext(s, items) ==
    IF items = <<>> THEN s
    ELSE constructor_addToNext(addToNext(s, Head(items)).st, Tail(items))

\* constructor(items): addToFurthest of each item in turn
RECURSIVE constructor(_, _)
constructor(s, items) ==
    IF items = <<>> THEN s
    ELSE constructor(addToFurthest(s, Head(items)).st, Tail(items))

\* size and isEmpty getters
sizeOf(s) == Result(s, RetValue(s.size))

isEmpty(s) == Result(s, RetBool(s.size = 0))

\* ---- generator objects: [Symbol.iterator]() and cycle() ----
\* a generator is suspended at its start, suspended at a yield, or finished;
\* a cycle() generator also holds its locals n and k
NoGen == [kind |-> "none", state |-> "done", n |-> 0, k |-> 0]

newIterator == [kind |-> "iterator", state |-> "start", n |-> 0, k |-> 0]

newCycle == [kind |-> "cycle", state |-> "start", n |-> 0, k |-> 0]

RetDone == [kind |-> "done"]

Pulled(s, g, r) == [st |-> s, gen |-> g, ret |-> r]

\* a generator that returned or threw is finished; its locals are gone
Finished(g) == [kind |-> g.kind, state |-> "done", n |-> 0, k |-> 0]

\* one pull of the infinite iterator: while (true) { yield this.next(); }
iteratorPull(s, g) ==
    IF g.state = "done" THEN Pulled(s, g, RetDone)
    ELSE LET r == next(s)
         IN IF r.ret.kind = "error" THEN Pulled(r.st, Finished(g), r.ret)
            ELSE Pulled(r.st, [g EXCEPT !.state = "run"], r.ret)

\* the loop test of cycle(): k < n
cycleMore_offByOne(g) == g.k <= g.n

cycleMore(g) == g.k < g.n

\* resuming cycle() after a yield: k += 1, n keeps the value read at the start
cycleResume_rereadsSize(s, g) == [g EXCEPT !.k = @ + 1, !.n = s.size]

cycleResume(s, g) == [g EXCEPT !.k = @ + 1]

\* one pull of cycle(): n is read at the first pull, k += 1 at each later one
cyclePull(s, g) ==
    IF g.state = "done" THEN Pulled(s, g, RetDone)
    ELSE LET g1 == IF g.state = "start"
                   THEN [g EXCEPT !.state = "run", !.n = s.size, !.k = 0]
                   ELSE cycleResume(s, g)
         IN IF ~cycleMore(g1) THEN Pulled(s, Finished(g), RetDone)
            ELSE LET r == next(s)
                 IN IF r.ret.kind = "error" THEN Pulled(r.st, Finished(g), r.ret)
                    ELSE Pulled(r.st, g1, r.ret)

pull(s, g) == IF g.kind = "cycle" THEN cyclePull(s, g) ELSE iteratorPull(s, g)

\* [...set.cycle()]: pull until the generator is finished
RECURSIVE drain(_, _, _)
drain(s, g, out) ==
    LET p == cyclePull(s, g)
    IN IF p.ret.kind = "done" THEN Result(p.st, RetArray(out))
       ELSE IF p.ret.kind = "error" THEN Result(p.st, p.ret)
       ELSE drain(p.st, p.gen, Append(out, p.ret.val))

cycle(s) == drain(s, newCycle, <<>>)

\* the native Set the tests compare membership against
LiveAfter(l, name, arg) ==
    IF name \in {"addToFurthest", "addToNext", "add"} THEN l \cup {arg}
    ELSE IF name = "delete" THEN l \ {arg}
    ELSE IF name = "clear" THEN {}
    ELSE l

\* a sequence with every occurrence after the first of each value dropped
RECURSIVE Dedup(_)
Dedup(q) ==
    IF q = <<>> THEN <<>>
    ELSE LET d == Dedup(SubSeq(q, 1, Len(q) - 1))
         IN IF Last(q) \in SeqToSet(d) THEN d ELSE Append(d, Last(q))

\* the values in the order they were inserted, read off the calls made
OrderAfter(o, name, arg) ==
    IF name \in {"addToFurthest", "addToNext", "add"}
    THEN (IF arg \in SeqToSet(o) THEN o ELSE Append(o, arg))
    ELSE IF name = "delete" THEN RemoveVal(o, arg)
    ELSE IF name = "clear" THEN <<>>
    ELSE o

Update(s, name, arg, result) ==
    \E r \in {result} :
      \E t \in {Collect(r.st)} :
        /\ current' = t.current
        /\ insertionHead' = t.insertionHead
        /\ nodes' = t.nodes
        /\ size' = t.size
        /\ heap' = t.heap
        /\ op' = [name |-> name, arg |-> arg]
        /\ ret' = r.ret
        /\ pre' = s
        /\ live' = LiveAfter(live, name, arg)
        /\ order' = OrderAfter(order, name, arg)
        /\ UNCHANGED <<array, index_>>

\* ---- one rotation watched from the outside ----
\* the watcher follows one value v: open says v has been returned by next()
\* and has not left the set since; stayed holds the other values that have
\* been in the set ever since that return, once those of them that next()
\* has returned since; bad records what went wrong
NoRound == [v |-> 0, open |-> FALSE, stayed |-> {}, once |-> {}, bad |-> "none"]

Watch(v) == [NoRound EXCEPT !.v = v]

\* the watcher after a call name(arg) that returned r and left the keys ks
RoundAfter(w, name, arg, r, ks) ==
    IF name = "next" /\ r.kind = "value"
    THEN (IF r.val = w.v
          THEN [w EXCEPT !.open = TRUE, !.stayed = ks \ {w.v}, !.once = {},
                         !.bad = IF w.open /\ w.stayed # w.once THEN "missed" ELSE @]
          ELSE IF w.open /\ r.val \in w.stayed
          THEN (IF r.val \in w.once THEN [w EXCEPT !.bad = "twice"]
                ELSE [w EXCEPT !.once = @ \cup {r.val}])
          ELSE w)
    ELSE IF name = "clear" \/ (name = "delete" /\ arg = w.v)
    THEN [w EXCEPT !.open = FALSE, !.stayed = {}, !.once = {}]
    ELSE IF name = "delete"
    THEN [w EXCEPT !.stayed = @ \ {arg}, !.once = @ \ {arg}]
    ELSE w

\* a call on the set while no generator is being pulled
Commit(s, name, arg, result) ==
    /\ Update(s, name, arg, result)
    /\ UNCHANGED <<gen, round>>

\* a call on the set that the watcher sees (the state before it is not kept)
Watched(s, name, arg, result) ==
    \E r \in {result} :
      \E t \in {Collect(r.st)} :
        /\ current' = t.current
        /\ insertionHead' = t.insertionHead
        /\ nodes' = t.nodes
        /\ size' = t.size
        /\ heap' = t.heap
        /\ op' = [name |-> name, arg |-> arg]
        /\ ret' = r.ret
        /\ live' = LiveAfter(live, name, arg)
        /\ order' = OrderAfter(order, name, arg)
        /\ round' = RoundAfter(round, name, arg, r.ret, SeqToSet(MapKeys(t.nodes)))
        /\ UNCHANGED <<pre, gen, array, index_>>

\* ---- the state machine ----
InitSet ==
    \E items \in SeqsUpTo(MaxInit) :
        LET t == Collect(constructor(EmptySet, items))
        IN /\ current = t.current
           /\ insertionHead = t.insertionHead
           /\ nodes = t.nodes
           /\ size = t.size
           /\ heap = t.heap
           /\ op = [name |-> "constructor", arg |-> items]
           /\ ret = RetVoid
           /\ pre = EmptySet
           /\ live = SeqToSet(items)
           /\ order = Dedup(items)
           /\ gen = NoGen
           /\ array = <<>>
           /\ index_ = 0

Init == InitSet /\ round = NoRound

Next_ == \E s \in {Self} : Commit(s, "next", 0, next(s))

Peek == \E s \in {Self} : Commit(s, "peek", 0, peek(s))

AddToFurthest ==
    \E s \in {Self}, item \in Vals :
        /\ MapHas(nodes, item) \/ HasFreshId(heap, item)
        /\ Commit(s, "addToFurthest", item, addToFurthest(s, item))

AddToNext ==
    \E s \in {Self}, item \in Vals :
        /\ MapHas(nodes, item) \/ HasFreshId(heap, item)
        /\ Commit(s, "addToNext", item, addToNext(s, item))

Add ==
    \E s \in {Self}, item \in Vals :
        /\ MapHas(nodes, item) \/ HasFreshId(heap, item)
        /\ Commit(s, "add", item, add(s, item))

Delete == \E s \in {Self}, item \in Vals : Commit(s, "delete", item, delete(s, item))

GetFurthestItem ==
    \E s \in {Self}, index \in Indexes :
        Commit(s, "getFurthestItem", index, getFurthestItem(s, index))

Has == \E s \in {Self}, item \in Vals : Commit(s, "has", item, has(s, item))

Clear == \E s \in {Self} : Commit(s, "clear", 0, clear(s))

ToArray == \E s \in {Self} : Commit(s, "toArray", 0, toArray(s))

ToSet == \E s \in {Self} : Commit(s, "toSet", 0, toSet(s))

Size == \E s \in {Self} : Commit(s, "size", 0, sizeOf(s))

IsEmpty == \E s \in {Self} : Commit(s, "isEmpty", 0, isEmpty(s))

\* [...set.cycle()]
Cycle == \E s \in {Self} : Commit(s, "cycle", 0, cycle(s))

Next ==
    \/ Next_
    \/ Peek
    \/ AddToFurthest
    \/ AddToNext
    \/ Add
    \/ Delete
    \/ GetFurthestItem
    \/ Has
    \/ Clear
    \/ ToArray
    \/ ToSet
    \/ Size
    \/ IsEmpty
    \/ Cycle

Spec == Init /\ [][Next]_vars

\* ---- the set pulled through a generator, with calls between the pulls ----
\* set[Symbol.iterator](): a new generator object, nothing runs yet
NewIterator ==
    \E s \in {Self} :
        /\ Update(s, "Symbol.iterator", 0, Result(s, RetVoid))
        /\ gen' = newIterator
        /\ UNCHANGED round

\* set.cycle(): a new generator object, nothing runs yet
NewCycle ==
    \E s \in {Self} :
        /\ Update(s, "newCycle", 0, Result(s, RetVoid))
        /\ gen' = newCycle
        /\ UNCHANGED round

\* generator.next()
Pull ==
    /\ gen.kind # "none"
    /\ \E s \in {Self} :
         \E p \in {pull(s, gen)} :
            /\ Update(s, "pull", gen, Result(p.st, p.ret))
            /\ gen' = p.gen
            /\ UNCHANGED round

NextIter ==
    \/ NewIterator
    \/ NewCycle
    \/ Pull
    \/ AddToFurthest
    \/ Delete
    \/ Clear

SpecIter == Init /\ [][NextIter]_vars

\* ---- sets grown by addToFurthest and rotated by next() only ----
NextAppend ==
    \/ AddToFurthest
    \/ Next_

SpecAppend == Init /\ [][NextAppend]_vars

\* ---- sets never rotated: no next(), no addToNext(), no generator ----
NextNoRotate ==
    \/ AddToFurthest
    \/ Add
    \/ Delete
    \/ Clear

SpecNoRotate == Init /\ [][NextNoRotate]_vars

\* ---- endless rotation: next() is called again and again, with
\* addToFurthest and delete calls in between ----
NextLive ==
    \/ Next_
    \/ AddToFurthest
    \/ Delete

SpecLive == Init /\ [][NextLive]_vars /\ WF_vars(Next_)

\* ---- rotation watched for one value, with insertions and deletions ----
InitRound == InitSet /\ \E v \in Vals : round = Watch(v)

RoundNext == \E s \in {Self} : Watched(s, "next", 0, next(s))

RoundAddToFurthest ==
    \E s \in {Self}, item \in Vals :
        /\ MapHas(nodes, item) \/ HasFreshId(heap, item)
        /\ Watched(s, "addToFurthest", item, addToFurthest(s, item))

RoundAddToNext ==
    \E s \in {Self}, item \in Vals :
        /\ MapHas(nodes, item) \/ HasFreshId(heap, item)
        /\ Watched(s, "addToNext", item, addToNext(s, item))

RoundDelete == \E s \in {Self}, item \in Vals : Watched(s, "delete", item, delete(s, item))

RoundClear == \E s \in {Self} : Watched(s, "clear", 0, clear(s))

NextRound ==
    \/ RoundNext
    \/ RoundAddToFurthest
    \/ RoundAddToNext
    \/ RoundDelete
    \/ RoundClear

SpecRound == InitRound /\ [][NextRound]_vars

\* ---- RotatableMutatableArray (copy = true) ----
Elems == 1..MaxElem

Sources == UNION {[1..k -> Elems] : k \in 0..MaxLen}

\* absolute indexes handed to setIndex, insert and removeAt
Positions == {Finite(k) : k \in (0 - 1)..(MaxLen + 1)} \cup NonFinite \cup {Half(0)}

\* offsets handed to peek and move
Offsets == Indexes \cup {Half(1), Half(0 - 2)}

SelfArr == [array |-> array, index |-> index_]

NoArr == [array |-> <<>>, index |-> 0]

length(a) == Len(a.array)

at(a, i) ==
    IF i < 0 \/ i >= length(a) THEN RetError("range") ELSE RetValue(a.array[i + 1])

norm(a, off) == Rem(trunc(off), length(a))

wrap_noFloor(a, offset) == Rem(a.index + offset, length(a))

\* ((index + offset) % length + length) % length
wrap(a, offset) == Rem(Rem(a.index + offset, length(a)) + length(a), length(a))

array_constructor(src) ==
    IF Len(src) = 0 THEN Result(NoArr, RetError("non-empty"))
    ELSE Result([array |-> src, index |-> 0], RetVoid)

array_next(a) ==
    LET v == at(a, a.index)
    IN IF v.kind = "error" THEN Result(a, v)
       ELSE Result([a EXCEPT !.index = IF a.index + 1 = length(a) THEN 0 ELSE a.index + 1], v)

array_peek(a, offset) ==
    IF ~isFinite(offset) THEN Result(a, RetError("finite"))
    ELSE Result(a, at(a, wrap(a, norm(a, offset))))

move(a, offset) ==
    IF ~isFinite(offset) THEN Result(a, RetError("finite"))
    ELSE LET b == [a EXCEPT !.index = wrap(a, norm(a, offset))]
         IN Result(b, at(b, b.index))

previous(a) == move(a, Finite(0 - 1))

setIndex(a, i) ==
    IF ~isInteger(i) \/ i.num < 0 \/ i.num >= length(a) THEN Result(a, RetError("range"))
    ELSE Result([a EXCEPT !.index = i.num], RetVoid)

resetIndex(a) == Result([a EXCEPT !.index = 0], RetVoid)

array_toArray(a) == Result(a, RetArray(a.array))

push_front(a, item) ==
    Result([a EXCEPT !.array = <<item>> \o @], RetValue(length(a) + 1))

push(a, item) ==
    Result([a EXCEPT !.array = Append(@, item)], RetValue(length(a) + 1))

array_add(a, item) == push(a, item)

assertInsertIndex_anyNumber(a, i) == i.num >= 0 /\ i.num <= length(a)

assertInsertIndex(a, i) == isInteger(i) /\ i.num >= 0 /\ i.num <= length(a)

assertRemoveIndex(a, i) == isInteger(i) /\ i.num >= 0 /\ i.num < length(a)

\* if (index <= this.index) this.index += 1
insertShift_strict(a, i) == IF i < a.index THEN a.index + 1 ELSE a.index

insertShift(a, i) == IF i <= a.index THEN a.index + 1 ELSE a.index

insert(a, i, item) ==
    IF ~assertInsertIndex(a, i) THEN Result(a, RetError("range"))
    ELSE LET spliced == SubSeq(a.array, 1, i.num) \o <<item>>
                          \o SubSeq(a.array, i.num + 1, length(a))
         IN Result([array |-> spliced, index |-> insertShift(a, i.num)],
                   RetValue(Len(spliced)))

\* if (index < this.index) this.index -= 1
removeShift_atCursor(a, i) == IF i <= a.index THEN a.index - 1 ELSE a.index

removeShift(a, i) == IF i < a.index THEN a.index - 1 ELSE a.index

\* if (this.index >= this.length) this.index = 0
removeWrap_none(a) == a

removeWrap(a) == IF a.index >= length(a) THEN [a EXCEPT !.index = 0] ELSE a

removeAt(a, i) ==
    IF ~assertRemoveIndex(a, i) THEN Result(a, RetError("range"))
    ELSE IF length(a) = 1 THEN Result(a, RetError("at least one"))
    ELSE LET spliced == SubSeq(a.array, 1, i.num) \o SubSeq(a.array, i.num + 2, length(a))
         IN Result(removeWrap([array |-> spliced, index |-> removeShift(a, i.num)]),
                   RetValue(a.array[i.num + 1]))

\* the constructor threw: there is no object to call
Constructed == ~(op.name = "constructor" /\ ret.kind = "error")

CommitArr(a, name, arg, result) ==
    /\ Constructed
    /\ \E r \in {result} :
         /\ array' = r.st.array
         /\ index_' = r.st.index
         /\ op' = [name |-> name, arg |-> arg]
         /\ ret' = r.ret
         /\ pre' = a
    /\ UNCHANGED <<current, insertionHead, nodes, size, heap, live, order, gen, round>>

InitArr ==
    \E src \in Sources :
      \E r \in {array_constructor(src)} :
        /\ array = r.st.array
        /\ index_ = r.st.index
        /\ op = [name |-> "constructor", arg |-> src]
        /\ ret = r.ret
        /\ pre = NoArr
        /\ current = Null
        /\ insertionHead = Null
        /\ nodes = <<>>
        /\ size = 0
        /\ heap = EmptySet.heap
        /\ live = {}
        /\ order = <<>>
        /\ gen = NoGen
        /\ round = NoRound

ArrNext == \E a \in {SelfArr} : CommitArr(a, "next", 0, array_next(a))

ArrPeek == \E a \in {SelfArr}, offset \in Offsets : CommitArr(a, "peek", offset, array_peek(a, offset))

ArrMove == \E a \in {SelfArr}, offset \in Offsets : CommitArr(a, "move", offset, move(a, offset))

ArrPrevious == \E a \in {SelfArr} : CommitArr(a, "previous", 0, previous(a))

ArrSetIndex == \E a \in {SelfArr}, i \in Positions : CommitArr(a, "setIndex", i, setIndex(a, i))

ArrResetIndex == \E a \in {SelfArr} : CommitArr(a, "resetIndex", 0, resetIndex(a))

ArrToArray == \E a \in {SelfArr} : CommitArr(a, "toArray", 0, array_toArray(a))

ArrPush ==
    \E a \in {SelfArr}, item \in Elems :
        /\ length(a) < MaxLen
        /\ CommitArr(a, "push", item, push(a, item))

ArrAdd ==
    \E a \in {SelfArr}, item \in Elems :
        /\ length(a) < MaxLen
        /\ CommitArr(a, "add", item, array_add(a, item))

ArrInsert ==
    \E a \in {SelfArr}, i \in Positions, item \in Elems :
        /\ length(a) < MaxLen \/ ~assertInsertIndex(a, i)
        /\ CommitArr(a, "insert", [index |-> i, item |-> item], insert(a, i, item))

ArrRemoveAt == \E a \in {SelfArr}, i \in Positions : CommitArr(a, "removeAt", i, removeAt(a, i))

NextArr ==
    \/ ArrNext
    \/ ArrPeek
    \/ ArrMove
    \/ ArrPrevious
    \/ ArrSetIndex
    \/ ArrResetIndex
    \/ ArrToArray
    \/ ArrPush
    \/ ArrAdd
    \/ ArrInsert
    \/ ArrRemoveAt

SpecArr == InitArr /\ [][NextArr]_vars

\* ---- views of the current state used by the properties ----
Arr == toArrayOf(Self)

Keys == MapKeys(nodes)

KeySet == SeqToSet(MapKeys(nodes))

Walk(k) == WalkNext(heap, current, k)

Walked == IF current = Null THEN {} ELSE {Walk(k) : k \in 0..(size - 1)}

NodeOf(v) == MapGet(nodes, v)

\* the state the last call started from
PreArr == toArrayOf(pre)

PreKeys == MapKeys(pre.nodes)

PreAnchorVal == pre.heap[pre.insertionHead].value

PreAnchorPrevVal == pre.heap[pre.heap[pre.insertionHead].prev].value

InsertedAbsent(names) ==
    /\ op.name \in names
    /\ op.arg \notin SeqToSet(PreKeys)
    /\ ret.kind = "this"

Deleted == op.name = "delete" /\ ret.kind = "bool" /\ ret.val

\* C1: _size equals the number of keys of the Map, the values in the ring are
\* pairwise distinct, and following next from the cursor visits exactly the
\* keys of the Map and is back at the cursor after exactly _size steps, not
\* earlier.
C1_RingMatchesIndex ==
    /\ size = Len(nodes)
    /\ \A i, j \in 1..Len(nodes) : i # j => nodes[i].key # nodes[j].key
    /\ current = Null => Len(nodes) = 0
    /\ current # Null =>
          /\ Walk(size) = current
          /\ \A k \in 1..(size - 1) : Walk(k) # current
          /\ {heap[Walk(k)].value : k \in 0..(size - 1)} = KeySet
          /\ \A i, j \in 0..(size - 1) : i # j => heap[Walk(i)].value # heap[Walk(j)].value

C1_Witness == Deleted /\ size = 2 /\ current # insertionHead

\* C2: every node n of the ring has n.next.prev = n and n.prev.next = n; in a
\* ring of one node, next and prev are the node itself.
C2_LinksAreInverse ==
    /\ \A n \in MapNodes(nodes) \cup Walked :
          /\ heap[heap[n].next].prev = n
          /\ heap[heap[n].prev].next = n
    /\ (size = 1 /\ current # Null) =>
          /\ heap[current].next = current
          /\ heap[current].prev = current

C2_Witness == InsertedAbsent({"addToNext"}) /\ size = 3 /\ current # insertionHead

\* C3: _size = 0 exactly when the cursor is null, exactly when the insertion
\* head is null.
C3_EmptyIffNoCursorIffNoAnchor ==
    /\ (size = 0) <=> (current = Null)
    /\ (current = Null) <=> (insertionHead = Null)

C3_Witness == Deleted /\ pre.size = 1 /\ size = 0

\* C4: when _size > 0 the cursor and the insertion head are nodes registered
\* in the Map under their own value and linked in the ring, also after the
\* deletion of the node that was the cursor, the anchor, or both.
C4_CursorAndAnchorAreLive ==
    size > 0 =>
       /\ current \in MapNodes(nodes)
       /\ insertionHead \in MapNodes(nodes)
       /\ NodeOf(heap[current].value) = current
       /\ NodeOf(heap[insertionHead].value) = insertionHead
       /\ current \in Walked
       /\ insertionHead \in Walked

C4_Witness ==
    /\ Deleted
    /\ pre.size >= 2
    /\ pre.current = pre.insertionHead
    /\ op.arg = PreArr[1]

\* C5: has(v) is true exactly for the values whose latest insertion is not
\* followed by delete(v) or clear(), and _size is the number of such values.
C5_HasMatchesHistory ==
    /\ \A v \in Vals : has(Self, v).ret.val <=> v \in live
    /\ size = Cardinality(live)
    /\ op.name = "has" => (ret.val <=> op.arg \in live)

C5_Witness == op.name = "has" /\ ~ret.val /\ size = 2

\* C6: next() on a non-empty set with toArray() = [v0, ..., v(n-1)] returns
\* v0, afterwards toArray() = [v1, ..., v(n-1), v0], and _size, the membership
\* and the insertion head are unchanged.
C6_NextRotates ==
    (op.name = "next" /\ pre.size > 0) =>
       /\ ret.kind = "value"
       /\ ret.val = Head(PreArr)
       /\ Arr = Append(Tail(PreArr), Head(PreArr))
       /\ size = pre.size
       /\ Keys = PreKeys
       /\ insertionHead = pre.insertionHead

C6_Witness == op.name = "next" /\ ret.kind = "value" /\ size = 3

\* C7: addToFurthest(x) with x absent on a non-empty set links x immediately
\* before the insertion head (x.next is the anchor, x.prev the anchor's former
\* predecessor), leaves the cursor and the anchor unchanged, keeps the ring
\* order of all other values and adds one to _size; on an empty set x becomes
\* both the cursor and the anchor.
C7_AddToFurthestLinksBeforeAnchor ==
    InsertedAbsent({"addToFurthest"}) =>
       LET x == NodeOf(op.arg)
       IN /\ x # Null
          /\ size = pre.size + 1
          /\ IF pre.size = 0
             THEN current = x /\ insertionHead = x
             ELSE /\ heap[x].next = insertionHead
                  /\ heap[heap[x].next].value = PreAnchorVal
                  /\ heap[heap[x].prev].value = PreAnchorPrevVal
                  /\ current = pre.current
                  /\ peek(Self).ret.val = Head(PreArr)
                  /\ insertionHead = pre.insertionHead
                  /\ RemoveVal(Arr, op.arg) = PreArr

C7_Witness ==
    /\ InsertedAbsent({"addToFurthest"})
    /\ pre.size >= 2
    /\ pre.current # pre.insertionHead

C9_AddToNextPrepends ==
    InsertedAbsent({"addToNext"}) =>
       /\ Arr = <<op.arg>> \o PreArr
       /\ peek(Self).ret.val = op.arg
       /\ next(Self).ret.val = op.arg
       /\ pre.size > 0 => next(next(Self).st).ret.val = Head(PreArr)
       /\ pre.size = 0 => (current = NodeOf(op.arg) /\ insertionHead = NodeOf(op.arg))

C9_Witness ==
    /\ InsertedAbsent({"addToNext"})
    /\ pre.size >= 2
    /\ pre.current # pre.insertionHead

\* C10: addToNext(x) on a non-empty set never changes which node is the
\* insertion head, also when the cursor and the anchor were the same node.
C10_AddToNextKeepsAnchor ==
    (op.name = "addToNext" /\ pre.size > 0) =>
       /\ insertionHead = pre.insertionHead
       /\ heap[insertionHead].value = PreAnchorVal

C10_Witness ==
    /\ InsertedAbsent({"addToNext"})
    /\ pre.size > 0
    /\ pre.current = pre.insertionHead

\* ---- further views ----
Inserts == {"addToFurthest", "addToNext", "add"}

Insert(s, name, item) ==
    IF name = "addToNext" THEN addToNext(s, item)
    ELSE IF name = "add" THEN add(s, item)
    ELSE addToFurthest(s, item)

IsEmptyError == ret.kind = "error" /\ ret.err = "empty"

AbsentVals == {v \in Vals : ~MapHas(nodes, v)}

\* getFurthestItem(k) on the current state
Furthest(k) == getFurthestItem(Self, Finite(k)).ret.val

\* the node that followed the insertion head before the last call
PreAnchorNext == pre.heap[pre.insertionHead].next

DeletedAnchor == Deleted /\ pre.size >= 2 /\ op.arg = PreAnchorVal

\* C11: addToFurthest(x), addToNext(x) and add(x) with x present are no-ops:
\* _size, toArray(), peek(), the insertion head and the toSet() order are as
\* before, and repeating an insertion that was just made changes nothing.
C11_DuplicateInsertIsNoOp ==
    op.name \in Inserts =>
       /\ op.arg \in SeqToSet(PreKeys) =>
             /\ ret.kind = "this"
             /\ size = pre.size
             /\ Arr = PreArr
             /\ peek(Self).ret.val = peek(pre).ret.val
             /\ insertionHead = pre.insertionHead
             /\ Keys = PreKeys
             /\ Self = pre
       /\ Collect(Insert(Self, op.name, op.arg).st) = Self

C11_Witness ==
    /\ op.name = "addToNext"
    /\ op.arg \in SeqToSet(PreKeys)
    /\ size = 3
    /\ op.arg # Head(Arr)
    /\ current # insertionHead

\* C12: delete(x) with x present returns true, takes one from _size, makes
\* has(x) false, and toArray() is the former toArray() without x; if x was at
\* the cursor the new cursor is x's former successor, otherwise peek() is as
\* before.
C12_DeleteRemovesOnlyX ==
    (op.name = "delete" /\ op.arg \in SeqToSet(PreKeys)) =>
       /\ ret.kind = "bool" /\ ret.val
       /\ size = pre.size - 1
       /\ ~has(Self, op.arg).ret.val
       /\ Arr = RemoveVal(PreArr, op.arg)
       /\ (op.arg = Head(PreArr) /\ pre.size >= 2) =>
             /\ current = pre.heap[pre.current].next
             /\ peek(Self).ret.val = PreArr[2]
       /\ op.arg # Head(PreArr) => peek(Self).ret.val = Head(PreArr)

C12_Witness ==
    /\ Deleted
    /\ pre.size = 3
    /\ op.arg = Head(PreArr)
    /\ pre.current # pre.insertionHead

\* C13: delete(x) with x absent returns false, raises nothing and leaves
\* _size, the ring, the cursor, the anchor and the membership as they were.
C13_DeleteAbsentIsNoOp ==
    (op.name = "delete" /\ op.arg \notin SeqToSet(PreKeys)) =>
       /\ ret.kind = "bool" /\ ~ret.val
       /\ size = pre.size
       /\ Arr = PreArr
       /\ current = pre.current
       /\ insertionHead = pre.insertionHead
       /\ Keys = PreKeys
       /\ Self = pre

C13_Witness ==
    /\ op.name = "delete"
    /\ op.arg \notin SeqToSet(PreKeys)
    /\ ret.kind = "bool"
    /\ size = 2
    /\ current # insertionHead

\* C14: delete(x) with _size >= 2: if x is the value of the insertion head the
\* anchor becomes x's former successor node, otherwise the anchor is unchanged.
C14_DeleteMovesAnchorToSuccessor ==
    (Deleted /\ pre.size >= 2) =>
       IF op.arg = PreAnchorVal
       THEN insertionHead = PreAnchorNext
       ELSE insertionHead = pre.insertionHead

C14_Witness == DeletedAnchor /\ pre.size = 3 /\ pre.current # pre.insertionHead

\* C15 as stated: after the delete of the anchor value (_size >= 2 before), an
\* addToFurthest(y) of an absent y puts y immediately after the deleted
\* anchor's former successor: y is the value that follows it in next() order.
C15_AppendLandsAfterSuccessor ==
    DeletedAnchor =>
       \A y \in AbsentVals :
          LET t == addToFurthest(Self, y).st
          IN t.heap[PreAnchorNext].next = MapGet(t.nodes, y)

\* C15: after the delete of the anchor value (_size >= 2 before), an
\* addToFurthest(y) of an absent y puts y immediately before the deleted
\* anchor's former successor: that successor is the value that follows y in
\* next() order.
C15_AppendLandsBeforeSuccessor ==
    DeletedAnchor =>
       \A y \in AbsentVals :
          LET t == addToFurthest(Self, y).st
          IN /\ MapGet(t.nodes, y) # Null
             /\ t.heap[MapGet(t.nodes, y)].next = PreAnchorNext
             /\ t.heap[PreAnchorNext].prev = MapGet(t.nodes, y)

C15_Witness ==
    /\ DeletedAnchor
    /\ pre.size = 3
    /\ pre.current # pre.insertionHead
    /\ current # insertionHead
    /\ AbsentVals # {}

\* C16: the delete of the only item, and clear() on any set, leave the state a
\* newly constructed empty set has (_size 0, no cursor, no anchor, empty Map,
\* toArray() and toSet() empty), so that every later call behaves as on a new
\* empty set.
C16_EmptiedIsInitial ==
    (op.name = "clear" \/ (Deleted /\ pre.size = 1)) =>
       /\ size = 0
       /\ current = Null
       /\ insertionHead = Null
       /\ nodes = <<>>
       /\ Arr = <<>>
       /\ toSet(Self).ret.val = <<>>
       /\ Self = EmptySet

C16_Witness == op.name = "clear" /\ pre.size >= 2 /\ pre.current # pre.insertionHead

\* C17: getFurthestItem(k) for an integer k >= 0 on a set of n > 0 items is
\* toArray()[n - 1 - (k mod n)]: k = 0 gives the value at cursor.prev, k in
\* [0, n) walks the ring backward without repeats, and k >= n gives the same
\* as k mod n.
C17_FurthestIndexesBackward ==
    (op.name = "getFurthestItem" /\ isFinite(op.arg) /\ op.arg.num >= 0 /\ pre.size > 0) =>
       /\ ret.kind = "value"
       /\ ret.val = Arr[size - (op.arg.num % size)]
       /\ ret.val = Furthest(op.arg.num % size)
       /\ Furthest(0) = heap[heap[current].prev].value
       /\ Furthest(0) = Last(Arr)
       /\ \A i, j \in 0..(size - 1) : i # j => Furthest(i) # Furthest(j)

C17_Witness ==
    /\ op.name = "getFurthestItem"
    /\ isFinite(op.arg)
    /\ op.arg.num > size
    /\ size = 3
    /\ ret.kind = "value"

\* C18: getFurthestItem(k) for a negative integer k wraps by floored modulo:
\* it is getFurthestItem(((k mod n) + n) mod n), so getFurthestItem(-1) is
\* peek() and getFurthestItem(-n) is getFurthestItem(0).
C18_NegativeIndexWraps ==
    (op.name = "getFurthestItem" /\ isFinite(op.arg) /\ op.arg.num < 0 /\ pre.size > 0) =>
       /\ ret.kind = "value"
       /\ ret.val = Furthest(op.arg.num % size)
       /\ ret.val = Arr[size - (op.arg.num % size)]
       /\ op.arg.num = 0 - 1 => ret.val = peek(Self).ret.val
       /\ op.arg.num = 0 - size => ret.val = Furthest(0)

C18_Witness ==
    /\ op.name = "getFurthestItem"
    /\ isFinite(op.arg)
    /\ op.arg.num = 0 - 1
    /\ size = 3
    /\ ret.kind = "value"

\* C19: getFurthestItem with a non-finite index on a non-empty set raises the
\* not-finite error and returns no value; on an empty set the empty error is
\* raised instead; either way the state is unchanged.
C19_NonFiniteIndexRejected ==
    (op.name = "getFurthestItem" /\ ~isFinite(op.arg)) =>
       /\ ret.kind = "error"
       /\ ret.err = (IF pre.size > 0 THEN "finite" ELSE "empty")
       /\ Self = pre

C19_Witness ==
    /\ op.name = "getFurthestItem"
    /\ op.arg.cls = "NaN"
    /\ ret.kind = "error"
    /\ size = 0

\* C20: next(), peek() and getFurthestItem() with _size = 0 raise the empty
\* error and leave the set empty and unchanged; with _size > 0 they never
\* raise it.
C20_EmptyErrorIffEmpty ==
    op.name \in {"next", "peek", "getFurthestItem"} =>
       /\ pre.size = 0 => (IsEmptyError /\ Self = pre /\ Self = EmptySet)
       /\ pre.size > 0 => ~IsEmptyError

C20_Witness == op.name = "next" /\ IsEmptyError /\ pre.size = 0

\* the values returned by k consecutive next() calls from state s
RECURSIVE NextSeq(_, _)
NextSeq(s, k) ==
    IF k <= 0 THEN <<>>
    ELSE LET r == next(s) IN <<r.ret>> \o NextSeq(r.st, k - 1)

Observers == {"peek", "has", "getFurthestItem", "toArray", "toSet", "size", "isEmpty"}

\* C21: peek(), has(), getFurthestItem(k), toArray(), toSet(), size and
\* isEmpty leave the whole state unchanged (cursor, anchor, ring links,
\* membership, size), so the values returned by later next() calls are the
\* same whether or not the observer was called.
C21_ObserversKeepState ==
    op.name \in Observers =>
       /\ Self = pre
       /\ NextSeq(Self, size + 1) = NextSeq(pre, size + 1)

C21_Witness ==
    /\ op.name = "peek"
    /\ ret.kind = "value"
    /\ size = 3
    /\ current # insertionHead

\* C22: the constructor, for any initial sequence (possibly empty, possibly
\* with duplicates), leaves toArray() equal to the sequence with every
\* occurrence after the first of each value dropped, size equal to the number
\* of distinct values, and the cursor and the anchor both at the first value.
C22_ConstructorDedups ==
    op.name = "constructor" =>
       /\ Arr = Dedup(op.arg)
       /\ size = Cardinality(SeqToSet(op.arg))
       /\ op.arg = <<>> => (current = Null /\ insertionHead = Null)
       /\ op.arg # <<>> =>
            /\ current = NodeOf(op.arg[1])
            /\ insertionHead = NodeOf(op.arg[1])
            /\ heap[current].value = op.arg[1]

C22_Witness ==
    /\ op.name = "constructor"
    /\ Len(op.arg) = 3
    /\ op.arg[1] = op.arg[3]
    /\ size = 2

C24_CycleIsOnePass ==
    op.name = "cycle" =>
       /\ ret.kind = "array"
       /\ Len(ret.val) = pre.size
       /\ ret.val = PreArr
       /\ Arr = PreArr
       /\ peek(Self).ret = peek(pre).ret
       /\ Self = pre
       /\ pre.size = 0 => ret.val = <<>>

C24_Witness ==
    /\ op.name = "cycle"
    /\ ret.kind = "array"
    /\ Len(ret.val) = 3
    /\ current # insertionHead

\* C26: a new set built from toArray() of any reachable set has the same
\* toArray() and size, and size consecutive next() calls on both return the
\* same values.
C26_RoundTrip ==
    \E t \in {constructor(EmptySet, Arr)} :
       /\ toArrayOf(t) = Arr
       /\ t.size = size
       /\ NextSeq(t, size) = NextSeq(Self, size)

C26_Witness ==
    /\ size = 3
    /\ current # insertionHead
    /\ Keys # Arr
    /\ op.name = "next"

\* C25: every pull of the infinite iterator performs exactly one next() on
\* the set: while the set is non-empty it returns what next() returns, leaves
\* the set as next() leaves it and never signals completion; the pull that
\* follows the set becoming empty raises the empty error.
C25_IteratorPullIsNext ==
    (op.name = "pull" /\ op.arg.kind = "iterator") =>
       \E r \in {next(pre)} :
          /\ pre.size > 0 =>
               /\ ret.kind = "value"
               /\ ret = r.ret
               /\ Self = Collect(r.st)
          /\ (pre.size = 0 /\ op.arg.state # "done") => IsEmptyError

\* the ring read forward from node n
RingFrom(n) == [i \in 1..size |-> heap[WalkNext(heap, n, i - 1)].value]

Rotated(q, r) == [i \in 1..Len(q) |-> q[((i - 1 + r) % Len(q)) + 1]]

\* C27: from an empty set, under any interleaving of addToFurthest and next()
\* only, the ring read from the first-inserted value is the insertion order,
\* so toArray() is a rotation of the insertion sequence (by the number of
\* values already passed), and a value added mid-rotation comes after every
\* earlier value not yet returned in the current pass.
C27_AppendOnlyKeepsInsertionOrder ==
    size > 0 =>
       /\ RingFrom(NodeOf(order[1])) = order
       /\ insertionHead = NodeOf(order[1])
       /\ \E r \in 0..(size - 1) : Arr = Rotated(order, r)
       /\ (op.name = "addToFurthest" /\ ~MapHas(pre.nodes, op.arg)) =>
            \E r \in 0..(IF pre.size = 0 THEN 0 ELSE pre.size - 1) :
               Arr = SubSeq(PreKeys, r + 1, pre.size) \o <<op.arg>> \o SubSeq(PreKeys, 1, r)

C27_Witness ==
    /\ op.name = "addToFurthest"
    /\ ~MapHas(pre.nodes, op.arg)
    /\ size = 3
    /\ current # insertionHead
    /\ Arr = <<order[2], order[3], order[1]>>

\* the element under the array's cursor
Cur(a) == a.array[a.index + 1]

\* C28: a RotatableMutatableArray built from a non-empty array keeps
\* length >= 1 and 0 <= index < length after any calls, rejected ones
\* included, so next() and peek() never raise the out-of-bounds error;
\* building one from an empty array is rejected with an error.
C28_CursorInBounds ==
    /\ op.name = "constructor" => (ret.kind = "error" <=> op.arg = <<>>)
    /\ Constructed =>
         /\ Len(array) >= 1
         /\ index_ \in 0..(Len(array) - 1)
         /\ array_next(SelfArr).ret.kind = "value"
         /\ array_peek(SelfArr, Finite(0)).ret.kind = "value"
         /\ op.name = "next" => ret.kind = "value"
         /\ (op.name = "peek" /\ isFinite(op.arg)) => ret.kind = "value"

C28_Witness ==
    /\ op.name = "removeAt"
    /\ ret.kind = "value"
    /\ Len(pre.array) = 2
    /\ pre.index = 1
    /\ op.arg = Finite(1)
    /\ index_ = 0

\* C29: insert(i, x) with an integer 0 <= i <= length places x at absolute
\* index i and shifts the later elements, returns the new length, and leaves
\* peek() on the same element: the cursor index grows by one exactly when
\* i <= index, so an x inserted at or before the cursor lies behind it and is
\* reached only after wrapping.
C29_InsertKeepsCurrent ==
    (op.name = "insert" /\ assertInsertIndex(pre, op.arg.index)) =>
       \E i \in {op.arg.index.num} :
          /\ Len(array) = Len(pre.array) + 1
          /\ array[i + 1] = op.arg.item
          /\ \A j \in 1..Len(pre.array) :
                pre.array[j] = (IF j <= i THEN array[j] ELSE array[j + 1])
          /\ ret = RetValue(Len(array))
          /\ Cur(SelfArr) = Cur(pre)
          /\ array_peek(SelfArr, Finite(0)).ret = array_peek(pre, Finite(0)).ret
          /\ index_ = (IF i <= pre.index THEN pre.index + 1 ELSE pre.index)
          /\ i <= pre.index => i < index_

C29_Witness ==
    /\ op.name = "insert"
    /\ ret.kind = "value"
    /\ op.arg.index = Finite(pre.index)
    /\ pre.index = 1
    /\ op.arg.item # Cur(pre)
    /\ index_ = 2

\* C30: removeAt(i) with a valid i on an array of length >= 2 returns the
\* element that was at index i and removes it; if i is not the cursor index,
\* peek() is the same element as before; if i is the cursor index, the
\* cursor is on the element that followed the removed one, or on the first
\* element when the removed one was last.
C30_RemoveAtKeepsOrAdvances ==
    (op.name = "removeAt" /\ assertRemoveIndex(pre, op.arg) /\ Len(pre.array) >= 2) =>
       \E i \in {op.arg.num} :
          /\ ret = RetValue(pre.array[i + 1])
          /\ Len(array) = Len(pre.array) - 1
          /\ \A j \in 1..Len(array) :
                array[j] = (IF j <= i THEN pre.array[j] ELSE pre.array[j + 1])
          /\ i # pre.index => Cur(SelfArr) = Cur(pre)
          /\ (i = pre.index /\ i < Len(pre.array) - 1) =>
                (index_ = i /\ Cur(SelfArr) = pre.array[i + 2])
          /\ (i = pre.index /\ i = Len(pre.array) - 1) =>
                (index_ = 0 /\ Cur(SelfArr) = pre.array[1])

C30_Witness ==
    /\ op.name = "removeAt"
    /\ ret.kind = "value"
    /\ Len(pre.array) = 3
    /\ pre.index = 1
    /\ op.arg = Finite(1)
    /\ pre.array[2] # pre.array[3]
    /\ index_ = 1

\* an integer in lo..hi
IntegerIn(i, lo, hi) == i.cls = "finite" /\ i.num >= lo /\ i.num <= hi

\* C31: insert with an index that is not an integer in [0, length], and
\* removeAt or setIndex with an index that is not an integer in [0, length),
\* raise the range error; removeAt with a valid index on a one-element array
\* raises the at-least-one-element error; in each case the backing array and
\* the cursor index are unchanged.
C31_RejectedCallsChangeNothing ==
    /\ (op.name = "insert" /\ ~IntegerIn(op.arg.index, 0, Len(pre.array))) =>
          (ret = RetError("range") /\ SelfArr = pre)
    /\ (op.name \in {"removeAt", "setIndex"} /\ ~IntegerIn(op.arg, 0, Len(pre.array) - 1)) =>
          (ret = RetError("range") /\ SelfArr = pre)
    /\ (op.name = "removeAt" /\ IntegerIn(op.arg, 0, Len(pre.array) - 1) /\ Len(pre.array) = 1) =>
          (ret = RetError("at least one") /\ SelfArr = pre)

C31_Witness ==
    /\ op.name = "insert"
    /\ op.arg.index = Half(0)
    /\ ret = RetError("range")
    /\ Len(array) = 2
    /\ index_ = 1

\* the values returned by k consecutive next() calls on the array a
RECURSIVE ArrNextSeq(_, _)
ArrNextSeq(a, k) ==
    IF k <= 0 THEN <<>>
    ELSE LET r == array_next(a) IN <<r.ret>> \o ArrNextSeq(r.st, k - 1)

Values(q) == [i \in 1..Len(q) |-> RetValue(q[i])]

\* C32: push(x) and add(x) append x at the end of the backing array, return
\* the new length and leave the cursor index and peek() unchanged; the next()
\* calls that follow return the elements from the cursor to the old end, then
\* the appended elements in push order, then the elements from index 0.
C32_PushAppends ==
    op.name \in {"push", "add"} =>
       /\ array = Append(pre.array, op.arg)
       /\ ret = RetValue(Len(array))
       /\ index_ = pre.index
       /\ array_peek(SelfArr, Finite(0)).ret = array_peek(pre, Finite(0)).ret
       /\ ArrNextSeq(SelfArr, Len(array)) =
             Values(SubSeq(pre.array, pre.index + 1, Len(pre.array)) \o <<op.arg>>
                      \o SubSeq(pre.array, 1, pre.index))
       /\ \A y \in Elems :
             ArrNextSeq(push(SelfArr, y).st, Len(array) + 1) =
                Values(SubSeq(pre.array, pre.index + 1, Len(pre.array)) \o <<op.arg, y>>
                         \o SubSeq(pre.array, 1, pre.index))

C32_Witness ==
    /\ op.name = "push"
    /\ Len(pre.array) = 2
    /\ pre.index = 1
    /\ op.arg # pre.array[1]
    /\ ret = RetValue(3)

\* C33: for an integer offset k of any sign and size, peek(k) returns the
\* element at index (index + k) mod length (floored) and changes nothing,
\* move(k) sets the cursor index to that index and returns the same element,
\* previous() is move(-1), and next() followed by previous() returns the same
\* element twice and restores the cursor.
C33_OffsetsWrapFloored ==
    /\ (op.name = "peek" /\ isInteger(op.arg)) =>
          /\ ret = RetValue(pre.array[((pre.index + op.arg.num) % Len(pre.array)) + 1])
          /\ SelfArr = pre
    /\ (op.name = "move" /\ isInteger(op.arg)) =>
          /\ index_ = (pre.index + op.arg.num) % Len(pre.array)
          /\ array = pre.array
          /\ ret = RetValue(array[index_ + 1])
          /\ ret = array_peek(pre, op.arg).ret
    /\ op.name = "previous" =>
          /\ index_ = (pre.index - 1) % Len(pre.array)
          /\ array = pre.array
          /\ ret = RetValue(array[index_ + 1])
          /\ Result(SelfArr, ret) = move(pre, Finite(0 - 1))
    /\ Constructed =>
          \E n \in {array_next(SelfArr)} :
             \E p \in {previous(n.st)} :
                /\ n.ret = RetValue(Cur(SelfArr))
                /\ p.ret = n.ret
                /\ p.st = SelfArr

C33_Witness ==
    /\ op.name = "move"
    /\ op.arg = Finite(0 - 4)
    /\ Len(array) = 3
    /\ pre.index = 0
    /\ index_ = 2

\* C34: on a fresh rotator over three elements [A, B, C], after one next()
\* (which returns A), peek(1) returns B, the element that the immediately
\* following next() call returns.
C34_PeekOneIsFollowingNext ==
    (op.name = "next" /\ pre.index = 0 /\ Len(pre.array) = 3) =>
       /\ ret = RetValue(array[1])
       /\ array_peek(SelfArr, Finite(1)).ret = RetValue(array[2])
       /\ array_peek(SelfArr, Finite(1)).ret = array_next(SelfArr).ret

\* C38: while next(), addToNext() and the generators have not been used since
\* the set was last empty, the cursor and the insertion anchor are the same
\* node after any constructor/addToFurthest/add/delete/clear calls, so every
\* addToFurthest(x) or add(x) of an absent x appends x at the end of
\* toArray().
C38_UnrotatedCursorIsAnchor ==
    /\ current = insertionHead
    /\ InsertedAbsent({"addToFurthest", "add"}) =>
          /\ Arr = Append(PreArr, op.arg)
          /\ Last(Arr) = op.arg

C38_Witness ==
    /\ op.name = "addToFurthest"
    /\ ~MapHas(pre.nodes, op.arg)
    /\ size = 3
    /\ Arr = <<3, 2, 1>>
    /\ current = insertionHead

\* C39: when the cursor and the insertion anchor are the same node,
\* addToNext(x) followed by addToFurthest(y), x and y absent, gives
\* toArray() = [x, y] followed by the toArray() before both calls: y comes
\* right after x, not at the end, because the anchor stayed on the old
\* cursor node.
C39_AppendAfterAddToNext ==
    (InsertedAbsent({"addToNext"}) /\ pre.current = pre.insertionHead) =>
       \A y \in AbsentVals :
          HasFreshId(heap, y) =>
             \E t \in {addToFurthest(Self, y).st} :
                /\ toArrayOf(t) = <<op.arg, y>> \o PreArr
                /\ pre.size > 0 => t.insertionHead = pre.current
                /\ pre.size > 0 => Last(toArrayOf(t)) # y

C39_Witness ==
    /\ op.name = "addToNext"
    /\ ~MapHas(pre.nodes, op.arg)
    /\ pre.current = pre.insertionHead
    /\ pre.size = 1
    /\ \E y \in AbsentVals :
          /\ HasFreshId(heap, y)
          /\ toArrayOf(addToFurthest(Self, y).st) = <<op.arg, y>> \o PreArr

\* the pulled cycle() generator as it was before the pull: the size read when
\* iteration began and the number of values yielded so far
CycleSize == IF op.arg.state = "start" THEN pre.size ELSE op.arg.n

CycleYielded == IF op.arg.state = "start" THEN 0 ELSE op.arg.k + 1

CyclePulled == op.name = "pull" /\ op.arg.kind = "cycle"

\* C37 as claimed: a pull of a started cycle() generator made after the set
\* became empty raises the empty error instead of ending normally, and a
\* pull that yields is one next() on the set.
C37_PullOnEmptiedAlwaysRaises ==
    CyclePulled =>
       /\ (op.arg.state = "run" /\ pre.size = 0) => IsEmptyError
       /\ ret.kind = "value" => (ret = next(pre).ret /\ Self = Collect(next(pre).st))

\* C37: cycle() pulled lazily with addToFurthest, delete and clear between
\* the pulls: a generator that has neither returned nor raised yields while
\* fewer values have been yielded than the size read at the first pull,
\* whatever the size is now; such a pull is one next() on the set, or raises
\* the empty error (ending the generator) when the set is empty; once that
\* many values have been yielded the pull ends normally, also on an empty
\* set.
C37_LazyCycleCountsFromFirstPull ==
    (CyclePulled /\ op.arg.state # "done") =>
       /\ (CycleYielded < CycleSize /\ pre.size > 0) =>
             /\ ret.kind = "value"
             /\ ret = next(pre).ret
             /\ Self = Collect(next(pre).st)
             /\ gen.state = "run"
             /\ gen.n = CycleSize
             /\ gen.k = CycleYielded
       /\ (CycleYielded < CycleSize /\ pre.size = 0) =>
             /\ IsEmptyError
             /\ Self = pre
             /\ gen.state = "done"
       /\ CycleYielded >= CycleSize =>
             /\ CycleYielded = CycleSize
             /\ ret = RetDone
             /\ Self = pre
             /\ gen.state = "done"

C37_Witness ==
    /\ CyclePulled
    /\ op.arg.state = "run"
    /\ op.arg.n = 1
    /\ pre.size = 3
    /\ ret = RetDone

\* the last call was a next() that returned v
Returned(v) == op.name = "next" /\ ret = RetValue(v)

C35_StayingValuesOncePerRound ==
    /\ round.bad = "none"
    /\ round.open => (round.once \subseteq round.stayed /\ round.stayed \subseteq KeySet)
    /\ (Returned(round.v) /\ round.open) => round.stayed = KeySet \ {round.v}

C35_Witness ==
    /\ round.open
    /\ round.stayed = {2}
    /\ round.once = {2}
    /\ round.v = 1
    /\ size = 3
    /\ op = [name |-> "addToNext", arg |-> 3]

====
